---- MODULE Spec2Model ----
(***************************************************************************)
(* Model of intexration/build.py: the filesystem helpers (cd, create_dir,  *)
(* empty, clean), CompileTask, IntexrationConfig, IntexrationTask,         *)
(* CloneTask and the three build strategies Build, CloneBuild, LazyBuild.  *)
(*                                                                         *)
(* The filesystem is a set of directories and a set of files, each a path *)
(* (a sequence of components) counted from the directory the process was *)
(* started in.  The root handed to a build is either absolute (its paths  *)
(* resolve the same way whatever the working directory is) or relative    *)
(* (its paths resolve against the current working directory).  External   *)
(* tools (git, pdflatex, makeindex, bibtex) are opaque: their exit code   *)
(* and the files they leave behind are chosen nondeterministically.       *)
(***************************************************************************)
EXTENDS Integers, Sequences, FiniteSets, TLC

VARIABLES
    fs,             \* [dirs, files, cfg]: directories, plain files, manifest files and their content
    rootAbs,        \* TRUE: root is an absolute path; FALSE: a relative one
    cwd,            \* the process-wide current working directory (a path)
    cwdAlive,       \* FALSE once the working directory itself has been deleted
    pc,             \* position of the running build
    strategy,       \* "full" (Build), "clone" (CloneBuild), "lazy" (LazyBuild)
    commit,         \* Build.commit
    document_name,  \* LazyBuild.document_name
    input_dir,      \* IntexrationTask.input_dir as written (root-relative path)
    names,          \* manifest sections still to be compiled by IntexrationTask.run
    job,            \* the CompileTask being run
    calls,          \* external invocations and copies of the current compile job
    compiled,       \* names of the compile jobs started in this build
    gitCalls,       \* number of invocations of the clone tool in this build
    gitRc,          \* how the clone tool ended in this build ("none" if it was not invoked)
    err,            \* the exception raised in this build ("none" if none)
    pending,        \* the exception still propagating ("none" if none or caught)
    errors,         \* messages passed to logging.error in this build
    outcome,        \* how run() ended: "returned" or "raised" ("none" while it runs)
    copied,         \* output files written by the copy steps of all builds so far
    snap,           \* what held when the running build started: [cwd, revs, repo, strategy, commit, outcome, gitRc]
    nbuilds         \* number of builds started so far

vars == <<fs, rootAbs, cwd, cwdAlive, pc, strategy, commit, document_name, input_dir,
          names, job, calls, compiled, gitCalls, gitRc, err, pending, errors, outcome, copied,
          snap, nbuilds>>

(* Number of builds in one batch. *)
MaxBuilds == 2

Commits == {"c1", "c2"}
DocumentNames == {"a", "zz"}
ToolOutcomes == {"zero", "nonzero", "raises"}

-----------------------------------------------------------------------------
(* Paths *)

input_name == <<"build">>
output_name == <<"out">>
config_name == ".intexration"
Root == <<"root">>
Owner == "o"
Repository == "r"

PathJoin(a, b) == a \o b

IsPrefix(p, q) == Len(p) <= Len(q) /\ SubSeq(q, 1, Len(p)) = p
StrictlyUnder(p, q) == Len(p) < Len(q) /\ IsPrefix(p, q)
Parent(q) == SubSeq(q, 1, Len(q) - 1)
Prefixes(q) == {SubSeq(q, 1, n) : n \in 0..Len(q)}

(* A path written by the program, resolved by the operating system. *)
Abs(p) == IF rootAbs THEN p ELSE PathJoin(cwd, p)
Resolvable == rootAbs \/ cwdAlive

IsDir(p) == Resolvable /\ Abs(p) \in fs.dirs
AllFiles(f) == f.files \cup DOMAIN f.cfg
IsFile(p) == Resolvable /\ Abs(p) \in AllFiles(fs)

(* os.listdir: the direct children of the directory q (absolute). *)
ListDir(f, q) == {p \in f.dirs \cup AllFiles(f) : Len(p) = Len(q) + 1 /\ IsPrefix(q, p)}

Restrict(g, S) == [x \in S |-> g[x]]

-----------------------------------------------------------------------------
(* Filesystem utilities *)

(* Mutant of create_dir: only the last directory of the path is made. *)
create_dir_NoParents(f, q) == [f EXCEPT !.dirs = @ \cup {q}]

(* os.makedirs(path) inside create_dir: the directory and all missing parents. *)
create_dir(f, q) == [f EXCEPT !.dirs = @ \cup Prefixes(q)]

(* Mutant of clean: nothing is removed. *)
clean_Nothing(f, q) == f

(* shutil.rmtree(q): q and everything under it. *)
clean(f, q) ==
    [dirs  |-> {p \in f.dirs : ~IsPrefix(q, p)},
     files |-> {p \in f.files : ~IsPrefix(q, p)},
     cfg   |-> Restrict(f.cfg, {p \in DOMAIN f.cfg : ~IsPrefix(q, p)})]

(* Mutant of empty: directories are never removed, as if files_only were
   always set. *)
empty_KeepsDirs(f, q, files_only) ==
    [dirs  |-> f.dirs,
     files |-> {p \in f.files : Parent(p) # q},
     cfg   |-> Restrict(f.cfg, {p \in DOMAIN f.cfg : Parent(p) # q})]

(* empty(path, files_only) on an existing directory q: every direct child is
   os.remove'd; a child that is a directory makes os.remove raise OSError, and is
   then rmtree'd unless files_only, in which case it is silently left alone. *)
empty(f, q, files_only) ==
    IF files_only
    THEN [dirs  |-> f.dirs,
          files |-> {p \in f.files : Parent(p) # q},
          cfg   |-> Restrict(f.cfg, {p \in DOMAIN f.cfg : Parent(p) # q})]
    ELSE [dirs  |-> {p \in f.dirs : ~StrictlyUnder(q, p)},
          files |-> {p \in f.files : ~StrictlyUnder(q, p)},
          cfg   |-> Restrict(f.cfg, {p \in DOMAIN f.cfg : ~StrictlyUnder(q, p)})]

(* What empty(path, files_only) passes to logging.error: the handler of line
   38 is reached only by an exception that is not an OSError, and os.remove
   and shutil.rmtree raise nothing else; the OSError of a child that is a
   directory is taken by the handler of line 35, which logs nothing. *)
EmptyLogged(f, q, files_only) == <<>>

(* The working directory survives a removal unless it lies in the removed part. *)
AliveAfter(f) == cwdAlive /\ cwd \in f.dirs

-----------------------------------------------------------------------------
(* Build paths *)

BuildInputDir == PathJoin(Root, input_name)
BuildOutputDir == PathJoin(Root, output_name)
RepoDir == PathJoin(BuildInputDir, <<Owner, Repository>>)
clone_dir_path(c) == PathJoin(RepoDir, <<c>>)
OutRepoDir == PathJoin(BuildOutputDir, <<Owner, Repository>>)

(* Every repository directory (a path ending in build/o/r) and the entries
   os.listdir finds in them: the revision directories. *)
IsRepoDir(q) == Len(q) >= Len(RepoDir) /\ SubSeq(q, Len(q) - Len(RepoDir) + 1, Len(q)) = RepoDir
RevisionDirs(f) == {p \in f.dirs \cup AllFiles(f) : Len(p) > 0 /\ IsRepoDir(Parent(p))}

-----------------------------------------------------------------------------
(* Manifest (IntexrationConfig) *)

dir_key == "dir"
idx_key == "idx"
bib_key == "bib"

NoOptions == [k \in {} |-> ""]
Section(n, o) == [name |-> n, opts |-> o]

has_option(sec, key) == key \in DOMAIN sec.opts
ConfigDir(sec) == IF has_option(sec, dir_key) THEN sec.opts[dir_key] ELSE ""
(* Mutant of ConfigIdx: the default is the bare name. *)
ConfigIdx_BareName(sec) == IF has_option(sec, idx_key) THEN sec.opts[idx_key] ELSE sec.name

ConfigIdx(sec) == IF has_option(sec, idx_key) THEN sec.opts[idx_key] ELSE sec.name \o ".idx"
ConfigBib(sec) == IF has_option(sec, bib_key) THEN sec.opts[bib_key] ELSE sec.name

DirPath(s) == IF s = "" THEN <<>> ELSE <<s>>

(* CompileTask.__init__ with the arguments IntexrationTask.run/run_only pass. *)
CompileTask(in, sec) ==
    [input_dir  |-> PathJoin(in, DirPath(ConfigDir(sec))),
     output_dir |-> BuildOutputDir,
     name       |-> sec.name,
     idx        |-> ConfigIdx(sec),
     bib        |-> ConfigBib(sec),
     tex        |-> sec.name \o ".tex",
     pdf        |-> sec.name \o ".pdf",
     log        |-> sec.name \o ".log"]

NoJob == CompileTask(<<>>, Section("", NoOptions))

(* What a clone can put into the checkout: a manifest (or none) and subdirectories. *)
CloneContents ==
    { [present |-> FALSE, sections |-> <<>>, subdirs |-> {}],
      [present |-> TRUE,  sections |-> <<>>, subdirs |-> {}],
      [present |-> TRUE,  sections |-> <<Section("a", NoOptions)>>, subdirs |-> {}],
      [present |-> TRUE,
       sections |-> <<Section("a", NoOptions),
                      Section("b", (dir_key :> "d") @@ (idx_key :> "x.idx") @@ (bib_key :> "refs"))>>,
       subdirs |-> {"d"}],
      [present |-> TRUE,  sections |-> <<Section("b", (dir_key :> "d"))>>, subdirs |-> {}] }

-----------------------------------------------------------------------------
(* Initial state: nothing is running; the filesystem is what an installation
   can look like before a build.  The repository directory root/build/o/r is
   absent, empty, or holds revision directories left by earlier fetches; the
   output directory root/out is absent, or present with or without the
   subtree root/out/o/r (holding a stale file and a subdirectory). *)

InitRepoStates == {"absent", "empty", "one", "two"}
InitOutStates == {"absent", "plain", "subtree"}

InitDirs(repo, out) ==
    {<<>>}
    \cup (IF repo = "absent" THEN {} ELSE Prefixes(RepoDir))
    \cup (IF repo \in {"one", "two"} THEN {clone_dir_path("c1")} ELSE {})
    \cup (IF repo = "two" THEN {clone_dir_path("c2")} ELSE {})
    \cup (IF out = "absent" THEN {} ELSE Prefixes(BuildOutputDir))
    \cup (IF out = "subtree" THEN Prefixes(PathJoin(OutRepoDir, <<"sub">>)) ELSE {})

InitFiles(out) ==
    IF out = "subtree"
    THEN {PathJoin(OutRepoDir, <<"old.pdf">>), PathJoin(OutRepoDir, <<"sub", "keep.pdf">>)}
    ELSE {}

Init ==
    /\ rootAbs \in BOOLEAN
    /\ \E repo \in InitRepoStates, out \in InitOutStates :
          fs = [dirs |-> InitDirs(repo, out), files |-> InitFiles(out), cfg |-> <<>>]
    /\ cwd = <<>>
    /\ cwdAlive = TRUE
    /\ pc = "idle"
    /\ strategy = "none"
    /\ commit = ""
    /\ document_name = ""
    /\ input_dir = <<>>
    /\ names = <<>>
    /\ job = NoJob
    /\ calls = <<>>
    /\ compiled = <<>>
    /\ gitCalls = 0
    /\ gitRc = "none"
    /\ err = "none"
    /\ pending = "none"
    /\ errors = <<>>
    /\ outcome = "none"
    /\ copied = {}
    /\ snap = [cwd |-> <<>>, revs |-> {}, repo |-> FALSE, strategy |-> "none", commit |-> "",
               outcome |-> "none", gitRc |-> "none"]
    /\ nbuilds = 0

-----------------------------------------------------------------------------
(* Exceptions *)

RuntimeErrors == {"Clone failed", "InTeXration config file not found",
                  "Build not in intexration config",
                  "Unable to determine commit directory for lazy build"}
IsRuntimeError(e) == e \in RuntimeErrors

(* Mutant of Catches: LazyBuild.run catches RuntimeError like the other two. *)
Catches_RuntimeOnly(s, e) == IsRuntimeError(e)

(* Which exceptions the except clause of the running strategy's run() catches. *)
Catches(s, e) ==
    CASE s = "full"  -> IsRuntimeError(e)
      [] s = "clone" -> IsRuntimeError(e)
      [] s = "lazy"  -> TRUE
      [] OTHER       -> FALSE

(* Exception e raised inside the try block of the running strategy's run():
   Build.run goes on to its finally clause, the other two end. *)
Raise(e) ==
    /\ err' = e
    /\ errors' = IF Catches(strategy, e) THEN Append(errors, e) ELSE errors
    /\ IF strategy = "full"
       THEN /\ pc' = "cleanup"
            /\ pending' = IF Catches(strategy, e) THEN "none" ELSE e
            /\ UNCHANGED outcome
       ELSE /\ pc' = "done"
            /\ pending' = "none"
            /\ outcome' = IF Catches(strategy, e) THEN "returned" ELSE "raised"

(* Exception e raised outside any try block of run(). *)
RaiseUncaught(e) ==
    /\ err' = e
    /\ pc' = "done"
    /\ outcome' = "raised"
    /\ UNCHANGED <<errors, pending>>

Continue(next) ==
    /\ pc' = next
    /\ UNCHANGED <<err, pending, errors, outcome>>

Return ==
    /\ pc' = "done"
    /\ outcome' = "returned"
    /\ UNCHANGED <<err, pending, errors>>

-----------------------------------------------------------------------------
(* A caller starts the next build of the batch. *)

FirstStep(s) ==
    CASE s = "full"  -> "clean"
      [] s = "clone" -> "out_purge"
      [] s = "lazy"  -> "commit_dir"

Start(s, c, n) ==
    /\ pc \in {"idle", "done"}
    /\ nbuilds < MaxBuilds
    /\ nbuilds' = nbuilds + 1
    /\ strategy' = s
    /\ commit' = c
    /\ document_name' = n
    /\ pc' = FirstStep(s)
    /\ input_dir' = <<>>
    /\ names' = <<>>
    /\ job' = NoJob
    /\ calls' = <<>>
    /\ compiled' = <<>>
    /\ gitCalls' = 0
    /\ gitRc' = "none"
    /\ err' = "none"
    /\ pending' = "none"
    /\ errors' = <<>>
    /\ outcome' = "none"
    /\ snap' = [cwd |-> cwd, revs |-> RevisionDirs(fs), repo |-> IsDir(RepoDir),
                strategy |-> strategy, commit |-> commit, outcome |-> outcome, gitRc |-> gitRc]
    /\ UNCHANGED <<fs, rootAbs, cwd, cwdAlive, copied>>

StartBuild == \E c \in Commits : Start("full", c, "")
StartCloneBuild == \E c \in Commits : Start("clone", c, "")
StartLazyBuild == \E n \in DocumentNames : Start("lazy", "", n)

-----------------------------------------------------------------------------
(* Mutant of CallRaises: a non-zero exit is treated as fatal. *)
CallRaises_NonZeroFatal(rc) == rc # "zero"

(* subprocess.call raises only when the tool cannot be launched; a non-zero
   return value reaches the comparison != 0 of the caller. *)
CallRaises(rc) == rc = "raises"

-----------------------------------------------------------------------------
(* CloneBuild.run, line 214: empty(root/out/owner/repository, True), outside
   the try block. *)

CloneBuildPurge ==
    /\ pc = "out_purge"
    /\ IF IsDir(OutRepoDir)
       THEN /\ fs' = empty(fs, Abs(OutRepoDir), TRUE)
            /\ errors' = errors \o EmptyLogged(fs, Abs(OutRepoDir), TRUE)
            /\ pc' = "clean"
            /\ UNCHANGED <<err, pending, outcome>>
       ELSE /\ RaiseUncaught("OSError")
            /\ UNCHANGED fs
    /\ UNCHANGED <<rootAbs, cwd, cwdAlive, strategy, commit, document_name, input_dir,
                   names, job, calls, compiled, gitCalls, gitRc, copied, snap, nbuilds>>

(* CloneTask._clean: empty(root/build/owner/repository, False); os.listdir raises
   FileNotFoundError (an OSError) when the directory does not exist. *)
CloneTaskClean ==
    /\ pc = "clean"
    /\ IF IsDir(RepoDir)
       THEN /\ fs' = empty(fs, Abs(RepoDir), FALSE)
            /\ cwdAlive' = AliveAfter(fs')
            /\ errors' = errors \o EmptyLogged(fs, Abs(RepoDir), FALSE)
            /\ pc' = "clone"
            /\ UNCHANGED <<err, pending, outcome>>
       ELSE /\ Raise("OSError")
            /\ UNCHANGED <<fs, cwdAlive>>
    /\ UNCHANGED <<rootAbs, cwd, strategy, commit, document_name, input_dir,
                   names, job, calls, compiled, gitCalls, gitRc, copied, snap, nbuilds>>

(* The checkout after a successful clone with content k. *)
Populate(f, q, k) ==
    [dirs  |-> f.dirs \cup {PathJoin(q, <<d>>) : d \in k.subdirs},
     files |-> f.files,
     cfg   |-> IF k.present
               THEN (PathJoin(q, <<config_name>>) :> k.sections) @@ f.cfg
               ELSE f.cfg]

(* Mutant of CloneFailed: the exit code of the clone tool is ignored. *)
CloneFailed_Ignored(rc) == FALSE

(* CloneTask._clone, the test subprocess.call(...) != 0. *)
CloneFailed(rc) == rc # "zero"

(* Mutant of Compiles: CloneBuild runs the run() it inherits from Build. *)
Compiles_Inherited(s) == TRUE

(* Whether run() goes on to IntexrationTask after the fetch: Build.run does
   (line 201), the run() CloneBuild overrides it with does not. *)
Compiles(s) == s = "full"

(* CloneTask._clone: clone_dir() creates the revision directory, then git clone
   runs; a non-zero exit raises RuntimeError("Clone failed"). *)
CloneTaskClone ==
    /\ pc = "clone"
    /\ gitCalls' = gitCalls + 1
    /\ \E rc \in ToolOutcomes, k \in CloneContents :
          LET q == Abs(clone_dir_path(commit))
              made == create_dir(fs, q)
          IN  /\ gitRc' = rc
              /\ IF CallRaises(rc)
                 THEN /\ fs' = made
                      /\ Raise("OSError")
                 ELSE IF CloneFailed(rc)
                 THEN /\ fs' = made
                      /\ Raise("Clone failed")
                 ELSE /\ fs' = Populate(made, q, k)
                      /\ IF Compiles(strategy) THEN Continue("load") ELSE Return
    /\ UNCHANGED <<rootAbs, cwd, cwdAlive, strategy, commit, document_name, input_dir,
                   names, job, calls, compiled, copied, snap, nbuilds>>

-----------------------------------------------------------------------------
(* Mutant of SingleCommitDir: only an empty listing is refused. *)
SingleCommitDir_NonEmpty(commit_dirs) == Cardinality(commit_dirs) >= 1

(* The test of LazyBuild.commit_dir: exactly one entry is listed. *)
SingleCommitDir(commit_dirs) == Cardinality(commit_dirs) = 1

(* LazyBuild.commit_dir: the single entry of root/build/owner/repository. *)

LazyBuildCommitDir ==
    /\ pc = "commit_dir"
    /\ IF ~IsDir(RepoDir)
       THEN /\ Raise("OSError")
            /\ UNCHANGED input_dir
       ELSE LET commit_dirs == ListDir(fs, Abs(RepoDir))
            IN  IF ~SingleCommitDir(commit_dirs)
                THEN /\ Raise("Unable to determine commit directory for lazy build")
                     /\ UNCHANGED input_dir
                ELSE /\ \E d \in commit_dirs :
                           input_dir' = PathJoin(RepoDir, <<d[Len(d)]>>)
                     /\ Continue("load")
    /\ UNCHANGED <<fs, rootAbs, cwd, cwdAlive, strategy, commit, document_name,
                   names, job, calls, compiled, gitCalls, gitRc, copied, snap, nbuilds>>

(* Mutant of config_names: the sections come back in reverse order. *)
config_names_Reversed(sections) ==
    [i \in 1..Len(sections) |-> sections[Len(sections) + 1 - i]]

(* IntexrationConfig.names: parser.sections(), the sections in file order. *)
config_names(sections) == sections

(* IntexrationTask.__init__ / IntexrationConfig.__init__: the manifest must
   exist.  In Build.run the argument clone_task.clone_dir() creates the
   revision directory once more before the constructor runs. *)
IntexrationTaskInit ==
    /\ pc = "load"
    /\ LET in == IF strategy = "full" THEN clone_dir_path(commit) ELSE input_dir
           made == IF strategy = "full" THEN create_dir(fs, Abs(in)) ELSE fs
           path == Abs(PathJoin(in, <<config_name>>))
       IN  /\ fs' = made
           /\ input_dir' = in
           /\ IF Resolvable /\ path \in DOMAIN made.cfg
              THEN /\ names' = config_names(made.cfg[path])
                   /\ Continue(IF strategy = "lazy" THEN "run_only" ELSE "run")
              ELSE /\ Raise("InTeXration config file not found")
                   /\ UNCHANGED names
    /\ UNCHANGED <<rootAbs, cwd, cwdAlive, strategy, commit, document_name,
                   job, calls, compiled, gitCalls, gitRc, copied, snap, nbuilds>>

(* IntexrationTask.run: the loop over config.names(); each turn builds the
   CompileTask of the next section.  When none is left the try block of
   Build.run is over. *)
IntexrationTaskRun ==
    /\ pc = "run"
    /\ IF names = <<>>
       THEN /\ Continue("cleanup")
            /\ UNCHANGED <<names, job, calls, compiled>>
       ELSE /\ job' = CompileTask(input_dir, Head(names))
            /\ names' = Tail(names)
            /\ calls' = <<>>
            /\ compiled' = Append(compiled, Head(names).name)
            /\ Continue("compile1")
    /\ UNCHANGED <<fs, rootAbs, cwd, cwdAlive, strategy, commit, document_name, input_dir,
                   gitCalls, gitRc, copied, snap, nbuilds>>

(* Mutant of InConfig: run_only does not check the name. *)
InConfig_Unchecked(name, sections) == TRUE

(* name in self.config.names() *)
InConfig(name, sections) == \E i \in 1..Len(sections) : sections[i].name = name

(* The options the parser answers for a name: has_option is False for every
   key of a section that does not exist. *)
SectionOf(name, sections) ==
    IF \E i \in 1..Len(sections) : sections[i].name = name
    THEN CHOOSE sec \in {sections[i] : i \in 1..Len(sections)} : sec.name = name
    ELSE Section(name, NoOptions)

(* IntexrationTask.run_only(name). *)
IntexrationTaskRunOnly ==
    /\ pc = "run_only"
    /\ IF ~InConfig(document_name, names)
       THEN /\ Raise("Build not in intexration config")
            /\ UNCHANGED <<job, compiled>>
       ELSE /\ job' = CompileTask(input_dir, SectionOf(document_name, names))
            /\ compiled' = Append(compiled, document_name)
            /\ Continue("compile1")
    /\ calls' = <<>>
    /\ UNCHANGED <<fs, rootAbs, cwd, cwdAlive, strategy, commit, document_name, input_dir,
                   names, gitCalls, gitRc, copied, snap, nbuilds>>

-----------------------------------------------------------------------------
(* CompileTask *)

(* The context manager cd(dirname): cur_dir = os.curdir is the string ".", so
   the os.chdir(cur_dir) of the finally clause stays where os.chdir(dirname)
   went.  The working directory after the with block, given that on entry: *)
cd(dirname) == Abs(dirname)

Call(tool, arg, wd, rc) == [tool |-> tool, arg |-> arg, wd |-> wd, rc |-> rc]

(* One external pass: with cd(input_dir): subprocess.call([tool, arg]).
   os.chdir raises FileNotFoundError when the directory cannot be resolved;
   subprocess.call raises OSError when the tool cannot be launched; a
   non-zero exit is only a logged warning.  pdflatex may leave the pdf and
   the log in the directory it runs in. *)
Pass(here, tool, arg, products, next) ==
    /\ pc = here
    /\ IF ~IsDir(job.input_dir)
       THEN /\ Raise("OSError")
            /\ UNCHANGED <<fs, cwd, cwdAlive, calls>>
       ELSE \E rc \in ToolOutcomes, written \in SUBSET products :
               LET wd == Abs(job.input_dir)
               IN  /\ cwd' = cd(job.input_dir)
                   /\ cwdAlive' = TRUE
                   /\ calls' = Append(calls, Call(tool, arg, wd, rc))
                   /\ IF CallRaises(rc)
                      THEN /\ Raise("OSError")
                           /\ UNCHANGED fs
                      ELSE /\ fs' = [fs EXCEPT !.files = @ \cup {PathJoin(wd, <<w>>) : w \in written}]
                           /\ Continue(next)
    /\ UNCHANGED <<rootAbs, strategy, commit, document_name, input_dir,
                   names, job, compiled, gitCalls, gitRc, copied, snap, nbuilds>>

CompileTaskCompile1 == Pass("compile1", "pdflatex", job.tex, {job.pdf, job.log}, "makeindex")
CompileTaskMakeindex == Pass("makeindex", "makeindex", job.idx, {}, "bibtex")
CompileTaskBibtex == Pass("bibtex", "bibtex", job.bib, {}, "compile2")
CompileTaskCompile2 == Pass("compile2", "pdflatex", job.tex, {job.pdf, job.log}, "copy")

(* shutil.copyfile(src, dst): src must be a file and the directory of dst exist. *)
CanCopy(src, dst) == IsFile(src) /\ IsDir(Parent(dst))

(* CompileTask._copy: the pdf first, then the log. *)
CompileTaskCopy ==
    /\ pc = "copy"
    /\ LET pdf_source_path == PathJoin(job.input_dir, <<job.pdf>>)
           pdf_dest_path == PathJoin(job.output_dir, <<job.pdf>>)
           log_source_path == PathJoin(job.input_dir, <<job.log>>)
           log_dest_path == PathJoin(job.output_dir, <<job.log>>)
           pdf_ok == CanCopy(pdf_source_path, pdf_dest_path)
           log_ok == pdf_ok /\ CanCopy(log_source_path, log_dest_path)
           written == (IF pdf_ok THEN {Abs(pdf_dest_path)} ELSE {})
                      \cup (IF log_ok THEN {Abs(log_dest_path)} ELSE {})
       IN  /\ fs' = [fs EXCEPT !.files = @ \cup written]
           /\ copied' = copied \cup written
           /\ calls' = Append(calls, Call("copy", job.name, cwd, IF log_ok THEN "zero" ELSE "raises"))
           /\ IF log_ok
              THEN IF strategy = "lazy" THEN Return ELSE Continue("run")
              ELSE Raise("OSError")
    /\ UNCHANGED <<rootAbs, cwd, cwdAlive, strategy, commit, document_name, input_dir,
                   names, job, compiled, gitCalls, gitRc, snap, nbuilds>>

-----------------------------------------------------------------------------
(* Build.run, finally clause: clean(clone_task.clone_dir()).  clone_dir()
   creates the revision directory (with its parents) where the path resolves
   now, and clean removes that tree.  os.makedirs raises when the path cannot
   be resolved, and that exception leaves run(). *)
BuildCleanup ==
    /\ pc = "cleanup"
    /\ pc' = "done"
    /\ IF Resolvable
       THEN LET q == Abs(clone_dir_path(commit))
            IN  /\ fs' = clean(create_dir(fs, q), q)
                /\ cwdAlive' = AliveAfter(fs')
                /\ outcome' = IF pending = "none" THEN "returned" ELSE "raised"
                /\ UNCHANGED err
       ELSE /\ err' = "OSError"
            /\ outcome' = "raised"
            /\ UNCHANGED <<fs, cwdAlive>>
    /\ pending' = "none"
    /\ UNCHANGED <<rootAbs, cwd, strategy, commit, document_name, input_dir,
                   names, job, calls, compiled, gitCalls, gitRc, errors, copied, snap, nbuilds>>

-----------------------------------------------------------------------------
Next ==
    \/ StartBuild
    \/ StartCloneBuild
    \/ StartLazyBuild
    \/ CloneBuildPurge
    \/ CloneTaskClean
    \/ CloneTaskClone
    \/ LazyBuildCommitDir
    \/ IntexrationTaskInit
    \/ IntexrationTaskRun
    \/ IntexrationTaskRunOnly
    \/ CompileTaskCompile1
    \/ CompileTaskMakeindex
    \/ CompileTaskBibtex
    \/ CompileTaskCompile2
    \/ CompileTaskCopy
    \/ BuildCleanup

Spec == Init /\ [][Next]_vars

-----------------------------------------------------------------------------
(* Properties *)

PassPcs == {"compile1", "makeindex", "bibtex", "compile2"}
NextPass(p) ==
    CASE p = "compile1"  -> "makeindex"
      [] p = "makeindex" -> "bibtex"
      [] p = "bibtex"    -> "compile2"
      [] p = "compile2"  -> "copy"

(* The directory a root-relative path named when the running build started. *)
AtStart(p) == IF rootAbs THEN p ELSE PathJoin(snap.cwd, p)

BuildEnded == pc = "done" /\ strategy = "full"

(* C1: when Build.run ends, by returning or by raising, the checkout
   directory root/build/<owner>/<repository>/<commit> does not exist. *)
C1_CheckoutRemoved ==
    BuildEnded => AtStart(clone_dir_path(commit)) \notin fs.dirs

(* C2: every error raised inside Build.run is caught there: Build.run always
   returns normally to its caller. *)
C2_BuildReturns ==
    BuildEnded => outcome = "returned"

(* C3: after each of the four external passes of a compile job the working
   directory equals what it was immediately before that pass started. *)
C3_CwdRestored ==
    [][(pc \in PassPcs) => (cwd' = cwd)]_vars

(* A compile job of the running build has ended, normally or by an exception. *)
JobEnded == compiled # <<>> /\ pc \in {"run", "cleanup", "done"}
Tools(cs) == [i \in 1..Len(cs) |-> cs[i].tool]
ExitedAll(cs) == \A i \in 1..Len(cs) : cs[i].tool # "copy" => cs[i].rc \in {"zero", "nonzero"}
FullSequence == <<"pdflatex", "makeindex", "bibtex", "pdflatex", "copy">>

(* C4: whatever the exit codes of the passes, a compile job whose input
   directory exists invokes typeset, index, bibliography, typeset in that
   order, none skipped or repeated, and then starts the copy. *)
C4_PassOrder ==
    (JobEnded /\ Len(calls) >= 1 /\ ExitedAll(calls)) => Tools(calls) = FullSequence

PdfSource == PathJoin(job.input_dir, <<job.pdf>>)
LogSource == PathJoin(job.input_dir, <<job.log>>)
PdfDest == PathJoin(job.output_dir, <<job.pdf>>)
LogDest == PathJoin(job.output_dir, <<job.log>>)

(* A pass whose tool exited, with any code, is followed by the next step. *)
PassGoesOn ==
    (pc \in PassPcs /\ Len(calls') > Len(calls) /\ calls'[Len(calls')].rc # "raises")
        => (pc' = NextPass(pc) /\ err' = err)

(* The copy step succeeded: nothing raised, both files are in the output directory. *)
CopySucceeds ==
    /\ err' = err
    /\ pc' \in {"run", "done"}
    /\ {Abs(PdfDest), Abs(LogDest)} \subseteq fs'.files

(* C5 as stated: for every combination of exit codes, if the pdf and the log
   exist in the input directory when the copy step runs, the job succeeds and
   both files are in the output directory afterwards. *)
C5_CopyWhenSourcesExist ==
    [][PassGoesOn /\ ((pc = "copy" /\ IsFile(PdfSource) /\ IsFile(LogSource)) => CopySucceeds)]_vars

(* C5 amended: ... if the pdf and the log exist in the input directory and
   the output directory exists when the copy step runs, the job succeeds and
   both files are in the output directory afterwards. *)
C5_Resilience ==
    [][PassGoesOn /\ ((pc = "copy" /\ IsFile(PdfSource) /\ IsFile(LogSource) /\ IsDir(job.output_dir))
                        => CopySucceeds)]_vars

(* C5 witness: index generation and bibliography both exited non-zero and the
   job still copied both files. *)
C5_Witness ==
    /\ JobEnded
    /\ Len(calls) = 5
    /\ calls[2].rc = "nonzero"
    /\ calls[3].rc = "nonzero"
    /\ calls[5].rc = "zero"
    /\ {PathJoin(BuildOutputDir, <<job.pdf>>), PathJoin(BuildOutputDir, <<job.log>>)} \subseteq fs.files

(* The output directory as the caller of the running build names it. *)
OutputFile(n) == AtStart(PathJoin(BuildOutputDir, <<n>>))
ManifestNames == {"a", "b"}

(* C6: starting from an empty output directory, whenever run_all ends every
   manifest entry has both its pdf and its log in the output directory or
   neither of them. *)
C6_NoPartialArtifacts ==
    (strategy = "full" /\ nbuilds = 1 /\ pc \in {"cleanup", "done"})
        => \A n \in ManifestNames :
              (OutputFile(n \o ".pdf") \in fs.files) <=> (OutputFile(n \o ".log") \in fs.files)

(* The entries of a repository directory. *)
Entries(f, q) == ListDir(f, q)
RepoDirs(f) == {q \in f.dirs : IsRepoDir(q)}
OnePerRepoDir(revs) == \A p, q \in revs : Parent(p) = Parent(q) => p = q
AtMostOneRevision(f) == \A q \in RepoDirs(f) : Cardinality(Entries(f, q)) <= 1
FetchEnded == pc = "done" /\ strategy \in {"full", "clone"}

(* C7 as stated, second half: two consecutive fetches leave exactly one
   revision directory, that of the later fetch. *)
C7_LaterRevisionOnly ==
    (pc = "done" /\ strategy = "clone" /\ snap.strategy = "clone" /\ snap.commit # commit)
        => Entries(fs, Abs(RepoDir)) = {Abs(clone_dir_path(commit))}

(* C7 amended: a full or fetch-only build that starts with at most one
   revision directory per repository directory ends with at most one; a
   fetch-only build whose purge steps succeeded leaves exactly the revision
   directory of its own commit, and one whose purge step failed leaves the
   revision directories as they were. *)
C7_SingleRevision ==
    /\ (FetchEnded /\ OnePerRepoDir(snap.revs)) => AtMostOneRevision(fs)
    /\ (pc = "done" /\ strategy = "clone")
          => IF gitCalls = 1
             THEN Entries(fs, Abs(RepoDir)) = {Abs(clone_dir_path(commit))}
             ELSE RevisionDirs(fs) = snap.revs

(* C7 witness: a second consecutive fetch of another revision has ended and
   only its revision directory is left. *)
C7_Witness ==
    /\ pc = "done" /\ strategy = "clone" /\ snap.strategy = "clone"
    /\ snap.commit # commit
    /\ snap.revs = {clone_dir_path(snap.commit)}
    /\ rootAbs
    /\ Entries(fs, RepoDir) = {clone_dir_path(commit)}

StateError == "Unable to determine commit directory for lazy build"

(* C8: LazyBuild.run on a repository directory holding zero entries, or two
   or more, fails with the state error, invokes no pass and copies nothing;
   with exactly one entry it goes on to load the manifest of that checkout. *)
C8_LazyDiscovery ==
    [][(pc = "commit_dir" /\ IsDir(RepoDir)) =>
          LET entries == Entries(fs, Abs(RepoDir))
          IN  IF Cardinality(entries) = 1
              THEN /\ pc' = "load"
                   /\ err' = "none"
                   /\ Abs(input_dir') \in entries
              ELSE /\ err' = StateError
                   /\ pc' = "done"
                   /\ calls' = <<>> /\ compiled' = <<>>
                   /\ fs' = fs /\ copied' = copied]_vars

(* C8 witness: a lazy build found two revision directories and ended with
   the state error. *)
C8_Witness ==
    /\ pc = "done" /\ strategy = "lazy"
    /\ err = StateError
    /\ rootAbs
    /\ Cardinality(Entries(fs, RepoDir)) = 2
    /\ compiled = <<>>

ConfigNotFound == "InTeXration config file not found"
NotInConfig == "Build not in intexration config"
TaskInputDir == IF strategy = "full" THEN clone_dir_path(commit) ELSE input_dir
ManifestExists == Resolvable /\ Abs(PathJoin(TaskInputDir, <<config_name>>)) \in DOMAIN fs.cfg
NothingCompiled == calls = <<>> /\ compiled = <<>>

(* C9: an absent manifest (run_all or run_one), or a name given to run_one
   that is no section of the manifest, raises before any external pass: no
   typeset, index or bibliography invocation occurs and nothing is copied. *)
C9_ConfigErrorsFirst ==
    [][/\ (pc = "load" /\ ~ManifestExists)
             => (err' = ConfigNotFound /\ pc' \in {"cleanup", "done"})
       /\ (pc = "run_only" /\ document_name \notin {names[i].name : i \in 1..Len(names)})
             => (err' = NotInConfig /\ pc' = "done")
       /\ (pc \in {"load", "run_only"})
             => (NothingCompiled /\ copied' = copied)
       /\ (err \in {ConfigNotFound, NotInConfig})
             => (NothingCompiled /\ NothingCompiled' /\ copied' = copied)]_vars

(* C9 witness: run_one was given a name the manifest does not declare. *)
C9_Witness ==
    /\ pc = "done" /\ strategy = "lazy"
    /\ err = NotInConfig
    /\ names # <<>>
    /\ NothingCompiled

(* C10: after CloneBuild.run ends, no artifact file that an earlier build
   copied to the output location is still present there. *)
C10_StaleArtifactsRemoved ==
    (pc = "done" /\ strategy = "clone" /\ outcome = "returned") => copied \cap fs.files = {}

-----------------------------------------------------------------------------
(* The construction of one compile job, from every manifest section.

   The state right after IntexrationTask.__init__ loaded the manifest of a
   checkout: the manifest holds one section, or a section without options and
   then that section; the section has any of the three names and any subset
   of the keys dir, idx, bib with any of the values; run (full build) or
   run_only (lazy build) is about to build the job. *)

SectionNames == {"a", "zz", "paper"}
OptionValues == {"d", "x"}
OptionKeys == {dir_key, idx_key, bib_key}
OptionSets == UNION {[K -> OptionValues] : K \in SUBSET OptionKeys}
ManifestSections == {Section(n, o) : n \in SectionNames, o \in OptionSets}
Manifests ==
    {<<sec>> : sec \in ManifestSections}
    \cup {<<Section("first", NoOptions), sec>> : sec \in ManifestSections}

Checkout == clone_dir_path("c1")
ManifestPath == PathJoin(Checkout, <<config_name>>)

InitConfig ==
    /\ rootAbs \in BOOLEAN
    /\ names \in Manifests
    /\ fs = [dirs  |-> Prefixes(Checkout) \cup Prefixes(BuildOutputDir)
                         \cup {PathJoin(Checkout, <<v>>) : v \in OptionValues},
             files |-> {ManifestPath},
             cfg   |-> (ManifestPath :> names)]
    /\ cwd = <<>>
    /\ cwdAlive = TRUE
    /\ \/ /\ strategy = "full"
          /\ pc = "run"
          /\ document_name = ""
          /\ gitCalls = 1
          /\ gitRc = "zero"
       \/ /\ strategy = "lazy"
          /\ pc = "run_only"
          /\ document_name \in DocumentNames
          /\ gitCalls = 0
          /\ gitRc = "none"
    /\ commit = "c1"
    /\ input_dir = Checkout
    /\ job = NoJob
    /\ calls = <<>>
    /\ compiled = <<>>
    /\ err = "none"
    /\ pending = "none"
    /\ errors = <<>>
    /\ outcome = "none"
    /\ copied = {}
    /\ snap = [cwd |-> <<>>, revs |-> {}, repo |-> strategy = "lazy", strategy |-> "none",
               commit |-> "", outcome |-> "none", gitRc |-> "none"]
    /\ nbuilds = 1

NextConfig ==
    \/ IntexrationTaskRun
    \/ IntexrationTaskRunOnly

SpecConfig == InitConfig /\ [][NextConfig]_vars

(* The section of the loaded manifest the running job was built from. *)
LoadedManifest == fs.cfg[AtStart(PathJoin(input_dir, <<config_name>>))]
JobSection == SectionOf(job.name, LoadedManifest)
JobBuilt == pc = "compile1" /\ calls = <<>>

(* C11: for every section name and every subset of the keys dir, idx, bib
   present in the section, the compile job has the idx value if the key is
   there and name + ".idx" if not, the bib value if the key is there and the
   name if not, and as input directory checkout/dir if dir is there and the
   checkout root if not. *)
C11_ManifestDefaults ==
    JobBuilt =>
        LET opts == JobSection.opts
        IN  /\ idx_key \in DOMAIN opts => job.idx = opts[idx_key]
            /\ idx_key \notin DOMAIN opts => job.idx = job.name \o ".idx"
            /\ bib_key \in DOMAIN opts => job.bib = opts[bib_key]
            /\ bib_key \notin DOMAIN opts => job.bib = job.name
            /\ dir_key \in DOMAIN opts => job.input_dir = PathJoin(input_dir, <<opts[dir_key]>>)
            /\ dir_key \notin DOMAIN opts => job.input_dir = input_dir

(* A job was built from a section that gives idx and dir and leaves bib out. *)
C11_Witness ==
    /\ JobBuilt
    /\ DOMAIN JobSection.opts = {idx_key, dir_key}
    /\ job.idx = "x" /\ job.bib = job.name

-----------------------------------------------------------------------------
(* run_all at work: the manifest of the checkout is loaded and the loop over
   its sections has not been left through the finally clause yet. *)
RunAll ==
    /\ strategy = "full"
    /\ pc \in {"run", "copy", "cleanup"} \cup PassPcs
    /\ input_dir # <<>>
    /\ AtStart(PathJoin(input_dir, <<config_name>>)) \in DOMAIN fs.cfg

SectionNamesOf(sections) == [i \in 1..Len(sections) |-> sections[i].name]
HasBothArtifacts(n) == {OutputFile(n \o ".pdf"), OutputFile(n \o ".log")} \subseteq fs.files
CopyFailed == pc = "cleanup" /\ calls # <<>> /\ calls[Len(calls)] = Call("copy", job.name, cwd, "raises")

(* The entries started so far are the first entries of the manifest, in file
   order; the running one is the last of them; the ones before it have both
   artifacts in the output directory. *)
InManifestOrder ==
    RunAll =>
        LET k == Len(compiled)
            M == LoadedManifest
        IN  /\ k <= Len(M)
            /\ compiled = SubSeq(SectionNamesOf(M), 1, k)
            /\ names = SubSeq(M, k + 1, Len(M))
            /\ (pc \in PassPcs \cup {"copy"} \/ CopyFailed) => (k >= 1 /\ job.name = compiled[k])
            /\ \A i \in 1..(k - 1) : HasBothArtifacts(compiled[i])

(* A failed copy ends the loop; after it no entry is started, no pass is
   invoked and nothing is written to the output directory.  A copy writes the
   artifacts of the running entry only. *)
FailFast ==
    /\ (RunAll /\ pc = "copy" /\ err' # err)
          => (pc' = "cleanup" /\ compiled' = compiled /\ names' = names)
    /\ (RunAll /\ pc = "copy")
          => fs'.files \ fs.files \subseteq {Abs(PdfDest), Abs(LogDest)}
    /\ (strategy = "full" /\ pc = "cleanup")
          => /\ pc' = "done"
             /\ compiled' = compiled /\ calls' = calls /\ copied' = copied
             /\ fs'.files \subseteq fs.files

(* C12: run_all compiles the manifest entries strictly in file order; when
   the copy step of entry k fails, entries 1..k-1 have both artifacts in the
   output directory, no pass is invoked and nothing is copied for an entry
   after k; N entries give at most N pdf/log pairs. *)
C12_FailFastInOrder == [][InManifestOrder' /\ FailFast]_vars

(* The copy of the second of two entries failed after the first entry got
   both its artifacts. *)
C12_Witness ==
    /\ RunAll /\ CopyFailed
    /\ Len(LoadedManifest) = 2 /\ Len(compiled) = 2
    /\ HasBothArtifacts(compiled[1])
    /\ ~HasBothArtifacts(compiled[2])

-----------------------------------------------------------------------------
CloneFailedError == "Clone failed"

(* The manifest was never loaded and no job was built. *)
NeverLoaded == input_dir = <<>> /\ names = <<>> /\ job = NoJob /\ NothingCompiled

(* C13: within one fetch the clone tool is invoked at most once; when it
   exits non-zero in a full build, the manifest is never loaded, no compile
   pass is invoked and the build goes directly to cleanup. *)
C13_CloneFailureFatal ==
    [][/\ gitCalls' <= 1
       /\ gitCalls' > gitCalls => pc = "clone"
       /\ (gitRc' = "nonzero" /\ strategy' = "full")
             => /\ pc' \in {"cleanup", "done"}
                /\ pc = "clone" => pc' = "cleanup"
                /\ err' = CloneFailedError
                /\ NeverLoaded']_vars

(* A full build ended after its one clone attempt exited non-zero. *)
C13_Witness ==
    /\ pc = "done" /\ strategy = "full"
    /\ gitRc = "nonzero" /\ gitCalls = 1
    /\ err = CloneFailedError
    /\ NeverLoaded

-----------------------------------------------------------------------------
(* The input directory of the running job, as the path named it when the
   build started. *)
JobInputDir == AtStart(job.input_dir)

(* C14: for every compile job, the first and the later ones, and for an
   absolute or a relative root, each of the four passes executes with the
   working directory equal to the job's input directory, and the copy step
   reads the pdf and the log from that directory. *)
C14_PassesInInputDir ==
    [][/\ (pc \in PassPcs /\ JobInputDir \in fs.dirs)
             => /\ Len(calls') = Len(calls) + 1
                /\ calls'[Len(calls')].wd = JobInputDir
                /\ cwd' = JobInputDir
       /\ (pc = "copy" /\ JobInputDir \in fs.dirs)
             => /\ Abs(PdfSource) = PathJoin(JobInputDir, <<job.pdf>>)
                /\ Abs(LogSource) = PathJoin(JobInputDir, <<job.log>>)]_vars

-----------------------------------------------------------------------------
CloneBuildEnded == pc = "done" /\ strategy = "clone"

(* C15: every fatal error raised inside CloneBuild.run, a failure of the
   purge of a missing root/out/o/r and a clone failure included, is caught at
   the strategy boundary: CloneBuild.run always returns normally. *)
C15_CloneBuildReturns ==
    CloneBuildEnded => outcome = "returned"

-----------------------------------------------------------------------------
FetchOnlyPcs == {"out_purge", "clean", "clone", "done"}

(* C16: CloneBuild.run never invokes a typeset, index or bibliography pass
   and never copies artifacts; when it ends after a successful clone the
   revision directory root/build/<owner>/<repository>/<commit> exists. *)
C16_FetchOnlyLeavesCheckout ==
    [][strategy' = "clone"
          => /\ pc' \in FetchOnlyPcs
             /\ NothingCompiled' /\ job' = NoJob
             /\ copied' = copied
             /\ (pc' = "done" /\ gitRc' = "zero")
                   => /\ outcome' = "returned"
                      /\ AtStart(clone_dir_path(commit')) \in fs'.dirs]_vars

(* A fetch-only build ended after a successful clone, the checkout in place. *)
C16_Witness ==
    /\ CloneBuildEnded
    /\ gitRc = "zero"
    /\ NothingCompiled
    /\ AtStart(clone_dir_path(commit)) \in fs.dirs
    /\ AtStart(PathJoin(clone_dir_path(commit), <<config_name>>)) \in DOMAIN fs.cfg

-----------------------------------------------------------------------------
(* C17: in every outcome of LazyBuild.run the clone tool is never invoked,
   the set of revision directories is the same after the run as before it,
   and any error is caught, so that run returns normally. *)
C17_LazyNeitherFetchesNorCleans ==
    [][strategy' = "lazy"
          => /\ gitCalls' = 0 /\ gitRc' = "none"
             /\ RevisionDirs(fs') = snap'.revs
             /\ strategy = "lazy" => (fs'.dirs = fs.dirs /\ fs.files \subseteq fs'.files)
             /\ pc' = "done" => outcome' = "returned"]_vars

(* A lazy build ended on an error that is no RuntimeError, which was caught,
   with the revision directories it found still there. *)
C17_Witness ==
    /\ pc = "done" /\ strategy = "lazy"
    /\ err = "OSError" /\ outcome = "returned"
    /\ calls # <<>>
    /\ snap.revs # {} /\ RevisionDirs(fs) = snap.revs

-----------------------------------------------------------------------------
FileChildren(f, q) == ListDir(f, q) \ f.dirs
DirChildren(f, q) == ListDir(f, q) \cap f.dirs
Below(f, q) == {p \in f.dirs \cup AllFiles(f) : StrictlyUnder(q, p)}

(* Purging everything: the path is still a directory and has no children. *)
PurgedAll(q) == q \in fs'.dirs /\ ListDir(fs', q) = {}

(* Purging the files only: the direct file children are gone, the directory
   children are there with their contents. *)
PurgedFiles(q) ==
    /\ q \in fs'.dirs
    /\ FileChildren(fs', q) = {}
    /\ DirChildren(fs', q) = DirChildren(fs, q)
    /\ \A d \in DirChildren(fs, q) : Below(fs', d) = Below(fs, d)

(* One logged failure for each child the purge could not delete. *)
LoggedUndeletable(q) == Len(errors') = Len(errors) + Cardinality(DirChildren(fs, q))

(* A purge of a path that does not exist raises and changes nothing. *)
PurgeRaised == err' = "OSError" /\ fs' = fs

(* C18: purge(path, files_only = false) on an existing directory leaves the
   path existing and without children; with files_only = true every direct
   file child is gone, every direct directory child is still there with its
   contents, and each such undeletable child produces a logged failure; a
   purge of a path that does not exist raises and changes nothing. *)
C18_PurgeSemantics ==
    [][/\ (pc = "clean" /\ IsDir(RepoDir)) => PurgedAll(Abs(RepoDir))
       /\ (pc = "out_purge" /\ IsDir(OutRepoDir))
             => (PurgedFiles(Abs(OutRepoDir)) /\ LoggedUndeletable(Abs(OutRepoDir)))
       /\ (pc = "clean" /\ ~IsDir(RepoDir)) => PurgeRaised
       /\ (pc = "out_purge" /\ ~IsDir(OutRepoDir)) => PurgeRaised]_vars

-----------------------------------------------------------------------------
(* A full build that found no repository directory root/build/o/r when it started. *)
FirstFullBuild == strategy = "full" /\ ~snap.repo

(* The repository directory exists and is empty. *)
RepoDirEmpty == IsDir(RepoDir) /\ ListDir(fs, Abs(RepoDir)) = {}

FirstFullBuildFails ==
    FirstFullBuild =>
        /\ pc \in {"clean", "cleanup", "done"}
        /\ gitCalls = 0 /\ gitRc = "none"
        /\ NothingCompiled
        /\ pc \in {"clean", "cleanup"} => ~IsDir(RepoDir)
        /\ pc = "done" => RepoDirEmpty

(* C19: when root/build/o/r does not exist before Build.run, the purge fails
   before the clone tool is invoked, so no clone and no compile pass happens;
   the cleanup creates and removes the revision directory and leaves
   root/build/o/r existing and empty, so that a second identical Build.run
   reaches the clone step. *)
C19_FirstFullBuild ==
    [][/\ FirstFullBuildFails'
       /\ (FirstFullBuild /\ pc = "clean") => (pc' = "cleanup" /\ err' = "OSError")
       /\ (strategy = "full" /\ pc = "clean" /\ RepoDirEmpty) => (pc' = "clone" /\ err' = "none")]_vars

(* The first full build of a repository ended: nothing was cloned, and the
   repository directory is there, empty. *)
C19_Witness ==
    /\ FirstFullBuild /\ pc = "done"
    /\ outcome = "raised" /\ err = "OSError"
    /\ gitCalls = 0
    /\ RepoDirEmpty

-----------------------------------------------------------------------------
(* The build before the running one, and how far it got. *)
AfterFullBuild == snap.strategy = "full"
AfterFetchOnly == snap.strategy = "clone" /\ snap.gitRc # "none"

(* C20: a lazy build run immediately after a full build of the same
   repository always fails discovery with the state error and compiles
   nothing; a lazy build run immediately after a fetch-only build whose purge
   step succeeded always finds exactly one revision directory and passes
   discovery, even when the clone of that fetch failed. *)
C20_LazyAfterOtherStrategies ==
    [][/\ (pc = "commit_dir" /\ AfterFullBuild)
             => /\ err' = StateError
                /\ pc' = "done"
                /\ NothingCompiled'
       /\ (pc = "commit_dir" /\ AfterFetchOnly)
             => /\ IsDir(RepoDir)
                /\ Cardinality(Entries(fs, Abs(RepoDir))) = 1
                /\ pc' = "load"
                /\ err' = "none"
                /\ Abs(input_dir') = Abs(clone_dir_path(snap.commit))]_vars

(* A lazy build passed discovery after a fetch-only build whose clone failed. *)
C20_Witness ==
    /\ strategy = "lazy" /\ pc = "load"
    /\ snap.strategy = "clone" /\ snap.gitRc = "nonzero"
    /\ Abs(input_dir) = Abs(clone_dir_path(snap.commit))
    /\ err = "none"

=============================================================================
